---------------------------- MODULE Spec2Model ----------------------------
(***************************************************************************)
(* png2tileset: run(args) of src/main.rs as a state machine.               *)
(*                                                                         *)
(* One behaviour is one call of run: open the image, check that its width  *)
(* and height are multiples of the tile size, cut it into tiles keeping    *)
(* the first occurrence of each, search the canvas dimensions, overlay the *)
(* tiles on the canvas row by row, and save it.                            *)
(*                                                                         *)
(* Strings are sequences of one-character strings.  A pixel is a record    *)
(* [rgb, a]: the three colour channels as one value, and the alpha         *)
(* channel, which is 0 (transparent) or 255 (opaque) in every image the    *)
(* model draws.  All u32 values of the model stay far below 2^31, so no    *)
(* arithmetic of the model wraps.                                          *)
(***************************************************************************)
EXTENDS Integers, Sequences, FiniteSets

VARIABLES
    args,               \* Args {output, size, file}
    disk,               \* what open(&args.file) finds
    image,              \* the decoded image
    pc,                 \* position in run
    result,             \* "running", or how run ended: "Ok", "Err", "Panic"
    x_tiles_count, y_tiles_count,
    x_tile, y_tile,     \* the extraction loops' counters
    res,                \* the distinct tiles
    pixels, width, height,
    height_pretender,   \* the dimension search's outer counter
    result_image,       \* the canvas
    x, y,               \* the compositing cursor
    k,                  \* tiles of res.iter() already placed
    placed,             \* the cursors handed to imageops::overlay, in order
    default_file_path, output_path,
    written             \* the files result_image.save has written

vars == <<args, disk, image, pc, result, x_tiles_count, y_tiles_count, x_tile,
          y_tile, res, pixels, width, height, height_pretender, result_image,
          x, y, k, placed, default_file_path, output_path, written>>

-----------------------------------------------------------------------------
(* Bounds of the inputs *)

MaxW == 2           \* widest image of the exhaustive family
MaxH == 2           \* tallest image of the exhaustive family
MaxSize == 2        \* largest tile size tried on the exhaustive family
MaxN == 7           \* most distinct tiles of a strip image
MaxTile == 8        \* largest tile size of a strip image
MaxPathLen == 3     \* longest input path

-----------------------------------------------------------------------------
(* Pixels and images *)

Transparent == [rgb |-> 0, a |-> 0]
Palette == {Transparent, [rgb |-> 1, a |-> 0], [rgb |-> 1, a |-> 255]}

Coords(w, h) == (0 .. w - 1) \X (0 .. h - 1)

\* ImageBuffer::new(w, h): every channel zero
NewImage(w, h) == [width |-> w, height |-> h, px |-> [p \in Coords(w, h) |-> Transparent]]

\* the tile cut at tile-grid position (xt, yt)
TileAt(img, xt, yt, ts) ==
    [width |-> ts, height |-> ts,
     px |-> [p \in Coords(ts, ts) |-> img.px[<<p[1] + xt * ts, p[2] + yt * ts>>]]]

ContainsLast(list, tile) == list # <<>> /\ list[Len(list)] = tile

\* Vec::contains with ImageBuffer's PartialEq: same dimensions, same data
Contains(list, tile) == \E i \in 1 .. Len(list) : list[i] = tile

PushFront(list, tile) == <<tile>> \o list

\* Vec::push
Push(list, tile) == Append(list, tile)

\* Pixel::blend for Rgba: a transparent source pixel leaves the destination
\* as it is, an opaque one replaces it
Blend(bottom, top) == IF top.a = 0 THEN bottom ELSE top

\* imageops::overlay(bottom, top, x0, y0): blends top onto bottom, clipped to bottom
Overlay(bottom, top, x0, y0) ==
    [bottom EXCEPT !.px =
        [p \in DOMAIN bottom.px |->
            IF /\ p[1] >= x0 /\ p[1] < x0 + top.width
               /\ p[2] >= y0 /\ p[2] < y0 + top.height
            THEN Blend(bottom.px[p], top.px[<<p[1] - x0, p[2] - y0>>])
            ELSE bottom.px[p]]]

-----------------------------------------------------------------------------
(* The checks and the dimension search *)

WidthOkByHeight(img, ts) == img.height % ts = 0

WidthOk(img, ts) == img.width % ts = 0

HeightOk(img, ts) == img.height % ts = 0

AreaCoversPixels(hp, wp, px, ts) == hp * wp >= px

AreaCovers(hp, wp, px, ts) == hp * wp >= px * ts

AlignedAlways(v, ts) == TRUE

Aligned(v, ts) == v % ts = 0

SmallerArea(wp, hp, w, h) == wp * hp < w * h

NotLarger(wp, hp, w, h) == wp + hp <= w + h

Smaller(wp, hp, w, h) == wp + hp < w + h

\* the condition of the search's if
Replaces(hp, wp, w, h, px, ts) ==
    /\ AreaCovers(hp, wp, px, ts)
    /\ Aligned(hp, ts)
    /\ Aligned(wp, ts)
    /\ Smaller(wp, hp, w, h)

\* for width_pretender in wp..px, at one height_pretender: the (width, height) after it
RECURSIVE InnerLoop(_, _, _, _, _, _)
InnerLoop(wp, hp, w, h, px, ts) ==
    IF wp >= px THEN <<w, h>>
    ELSE IF Replaces(hp, wp, w, h, px, ts)
         THEN InnerLoop(wp + 1, hp, wp, hp, px, ts)
         ELSE InnerLoop(wp + 1, hp, w, h, px, ts)

-----------------------------------------------------------------------------
(* Paths and names *)

RECURSIVE LastIndexOf(_, _)
\* the last index of character c in s, 0 when there is none
LastIndexOf(s, c) ==
    IF s = <<>> THEN 0
    ELSE IF s[Len(s)] = c THEN Len(s)
    ELSE LastIndexOf(SubSeq(s, 1, Len(s) - 1), c)

RECURSIVE SplitSlash(_)
\* the parts of s between its separators
SplitSlash(s) ==
    LET i == LastIndexOf(s, "/") IN
    IF i = 0 THEN <<s>>
    ELSE Append(SplitSlash(SubSeq(s, 1, i - 1)), SubSeq(s, i + 1, Len(s)))

\* Path::components: empty parts are dropped, and so is "." unless it begins the path
Components(s) ==
    LET parts == SplitSlash(s) IN
    SelectSeq([i \in 1 .. Len(parts) |->
                  IF parts[i] = <<>> THEN <<>>
                  ELSE IF parts[i] = <<".">> /\ i > 1 THEN <<>>
                  ELSE IF parts[i] = <<".">> THEN <<"CurDir">>
                  ELSE IF parts[i] = <<".", ".">> THEN <<"ParentDir">>
                  ELSE <<"Normal", parts[i]>>],
              LAMBDA c : c # <<>>)

NoName == [some |-> FALSE]
Some(v) == [some |-> TRUE, val |-> v]

\* Path::file_name: the last component when it is a normal one
FileName(s) ==
    LET cs == Components(s) IN
    IF cs # <<>> /\ cs[Len(cs)][1] = "Normal" THEN Some(cs[Len(cs)][2]) ELSE NoName

\* Path::file_stem: the file name up to its last dot, the whole name when the
\* only dot begins it or there is none
FileStem(s) ==
    LET fname == FileName(s) IN
    IF ~fname.some THEN NoName
    ELSE LET i == LastIndexOf(fname.val, ".") IN
         IF i <= 1 THEN fname ELSE Some(SubSeq(fname.val, 1, i - 1))

Digit(d) == <<"0", "1", "2", "3", "4", "5", "6", "7", "8", "9">>[d + 1]

RECURSIVE Decimal(_)
\* {} of a u32
Decimal(n) == IF n < 10 THEN <<Digit(n)>> ELSE Append(Decimal(n \div 10), Digit(n % 10))

\* format!("{}-tileset-{}x{}.png", stem or "my", tile_size, tile_size)
DefaultFilePath(file, ts) ==
    LET stem == FileStem(file) IN
    (IF stem.some THEN stem.val ELSE <<"m", "y">>)
        \o <<"-", "t", "i", "l", "e", "s", "e", "t", "-">>
        \o Decimal(ts) \o <<"x">> \o Decimal(ts) \o <<".", "p", "n", "g">>

OutputPathDefault(output, default) == default

\* args.output.as_ref().unwrap_or(&default_file_path)
OutputPath(output, default) == IF output.some THEN output.val ELSE default

-----------------------------------------------------------------------------
(* The inputs *)

Unreadable == [ok |-> FALSE]
Readable(img) == [ok |-> TRUE, img |-> img]

TestFile == <<"3", ".", "p", "n", "g">>
CustomName == <<"c", ".", "p", "n", "g">>

\* every image up to MaxW x MaxH over the palette
SmallImages ==
    UNION {{[width |-> w, height |-> h, px |-> f] : f \in [Coords(w, h) -> Palette]} :
           <<w, h>> \in (1 .. MaxW) \X (1 .. MaxH)}

\* tile t of a strip: opaque, of colour 0 but for one pixel of colour t + 1
StripPixel(t, xx, yy, ts) ==
    [rgb |-> IF xx = t % ts /\ yy = (t \div ts) % ts THEN t + 1 ELSE 0, a |-> 255]

\* n different tiles side by side, then the first one again
StripImage(n, ts) ==
    LET cells == IF n = 0 THEN 0 ELSE n + 1 IN
    [width |-> cells * ts, height |-> ts,
     px |-> [p \in Coords(cells * ts, ts) |->
                StripPixel((p[1] \div ts) % n, p[1] % ts, p[2], ts)]]

PathChars == {"a", ".", "/"}
Paths == UNION {[1 .. n -> PathChars] : n \in 0 .. MaxPathLen}
NameSizes == {1, 10}

\* one opaque tile of the tile size
PlainImage(ts) ==
    [width |-> ts, height |-> ts, px |-> [p \in Coords(ts, ts) |-> [rgb |-> 1, a |-> 255]]]

Start ==
    /\ image = NewImage(0, 0)
    /\ pc = "open"
    /\ result = "running"
    /\ x_tiles_count = 0 /\ y_tiles_count = 0
    /\ x_tile = 0 /\ y_tile = 0
    /\ res = <<>>
    /\ pixels = 0 /\ width = 0 /\ height = 0
    /\ height_pretender = 0
    /\ result_image = NewImage(0, 0)
    /\ x = 0 /\ y = 0 /\ k = 0
    /\ placed = <<>>
    /\ default_file_path = <<>> /\ output_path = <<>>
    /\ written = <<>>

\* every small image, at every tile size from 0
InitSmall ==
    /\ \E img \in SmallImages : disk = Readable(img)
    /\ \E s \in 0 .. MaxSize : args = [output |-> NoName, size |-> s, file |-> TestFile]

\* strips of up to MaxN distinct tiles, at tile sizes up to MaxTile
InitStrip ==
    \E n \in 0 .. MaxN, s \in 1 .. MaxTile :
        /\ disk = Readable(StripImage(n, s))
        /\ args = [output |-> NoName, size |-> s, file |-> TestFile]

\* every path, with and without --output; a path that names no file cannot be opened
InitNames ==
    \E f \in Paths, o \in {NoName, Some(CustomName)}, s \in NameSizes :
        /\ args = [output |-> o, size |-> s, file |-> f]
        /\ disk \in {Unreadable} \cup (IF FileName(f).some THEN {Readable(PlainImage(s))} ELSE {})

Init == Start /\ (InitSmall \/ InitStrip \/ InitNames)

-----------------------------------------------------------------------------
(* run *)

Returns(r) ==
    /\ pc' = "done"
    /\ result' = r

\* let image = open(&args.file)?;
OpenOk ==
    /\ pc = "open"
    /\ disk.ok
    /\ image' = disk.img
    /\ pc' = "check_width"
    /\ UNCHANGED <<args, disk, result, x_tiles_count, y_tiles_count, x_tile, y_tile,
                   res, pixels, width, height, height_pretender, result_image,
                   x, y, k, placed, default_file_path, output_path, written>>

OpenErr ==
    /\ pc = "open"
    /\ ~disk.ok
    /\ Returns("Err")
    /\ UNCHANGED <<args, disk, image, x_tiles_count, y_tiles_count, x_tile, y_tile,
                   res, pixels, width, height, height_pretender, result_image,
                   x, y, k, placed, default_file_path, output_path, written>>

\* image.width() % tile_size with tile_size = 0: the remainder panics
RemainderByZero ==
    /\ pc = "check_width"
    /\ args.size = 0
    /\ Returns("Panic")
    /\ UNCHANGED <<args, disk, image, x_tiles_count, y_tiles_count, x_tile, y_tile,
                   res, pixels, width, height, height_pretender, result_image,
                   x, y, k, placed, default_file_path, output_path, written>>

\* if image.width() % tile_size != 0 { return Err(..) }
CheckWidth ==
    /\ pc = "check_width"
    /\ args.size # 0
    /\ \/ ~WidthOk(image, args.size) /\ Returns("Err")
       \/ WidthOk(image, args.size) /\ pc' = "check_height" /\ UNCHANGED result
    /\ UNCHANGED <<args, disk, image, x_tiles_count, y_tiles_count, x_tile, y_tile,
                   res, pixels, width, height, height_pretender, result_image,
                   x, y, k, placed, default_file_path, output_path, written>>

\* if image.height() % tile_size != 0 { return Err(..) }; then the counts and res
CheckHeight ==
    /\ pc = "check_height"
    /\ \/ /\ ~HeightOk(image, args.size)
          /\ Returns("Err")
          /\ UNCHANGED <<x_tiles_count, y_tiles_count>>
       \/ /\ HeightOk(image, args.size)
          /\ x_tiles_count' = image.width \div args.size
          /\ y_tiles_count' = image.height \div args.size
          /\ pc' = "extract"
          /\ UNCHANGED result
    /\ res' = <<>>
    /\ x_tile' = 0 /\ y_tile' = 0
    /\ UNCHANGED <<args, disk, image, pixels, width, height, height_pretender,
                   result_image, x, y, k, placed, default_file_path, output_path, written>>

\* one pass of the body of for x_tile
ExtractTile ==
    /\ pc = "extract"
    /\ y_tile < y_tiles_count
    /\ x_tile < x_tiles_count
    /\ LET inner == TileAt(image, x_tile, y_tile, args.size) IN
       res' = IF ~Contains(res, inner) THEN Push(res, inner) ELSE res
    /\ x_tile' = x_tile + 1
    /\ UNCHANGED <<args, disk, image, pc, result, x_tiles_count, y_tiles_count, y_tile,
                   pixels, width, height, height_pretender, result_image,
                   x, y, k, placed, default_file_path, output_path, written>>

\* for x_tile is over: the next y_tile
ExtractRowEnd ==
    /\ pc = "extract"
    /\ y_tile < y_tiles_count
    /\ x_tile = x_tiles_count
    /\ y_tile' = y_tile + 1
    /\ x_tile' = 0
    /\ UNCHANGED <<args, disk, image, pc, result, x_tiles_count, y_tiles_count, res,
                   pixels, width, height, height_pretender, result_image,
                   x, y, k, placed, default_file_path, output_path, written>>

\* for y_tile is over: pixels and the single-row layout
ExtractEnd ==
    /\ pc = "extract"
    /\ y_tile = y_tiles_count
    /\ pixels' = Len(res) * args.size
    /\ width' = Len(res) * args.size
    /\ height' = args.size
    /\ height_pretender' = 0
    /\ pc' = "search"
    /\ UNCHANGED <<args, disk, image, result, x_tiles_count, y_tiles_count, x_tile,
                   y_tile, res, result_image, x, y, k, placed, default_file_path,
                   output_path, written>>

\* one pass of the body of for height_pretender: the whole for width_pretender
SearchRow ==
    /\ pc = "search"
    /\ height_pretender < pixels
    /\ LET wh == InnerLoop(0, height_pretender, width, height, pixels, args.size) IN
       /\ width' = wh[1]
       /\ height' = wh[2]
    /\ height_pretender' = height_pretender + 1
    /\ UNCHANGED <<args, disk, image, pc, result, x_tiles_count, y_tiles_count, x_tile,
                   y_tile, res, pixels, result_image, x, y, k, placed,
                   default_file_path, output_path, written>>

\* the search is over: the canvas and the cursor
SearchEnd ==
    /\ pc = "search"
    /\ height_pretender = pixels
    /\ result_image' = NewImage(width, height)
    /\ x' = 0 /\ y' = 0 /\ k' = 0
    /\ pc' = "composite"
    /\ UNCHANGED <<args, disk, image, result, x_tiles_count, y_tiles_count, x_tile,
                   y_tile, res, pixels, width, height, height_pretender, placed,
                   default_file_path, output_path, written>>

\* one pass of the body of for tile in res.iter()
PlaceTile ==
    /\ pc = "composite"
    /\ k < Len(res)
    /\ LET wrap == x = width
           cy == IF wrap THEN y + args.size ELSE y
           cx == IF wrap THEN 0 ELSE x
       IN /\ result_image' = Overlay(result_image, res[k + 1], cx, cy)
          /\ placed' = Append(placed, <<cx, cy>>)
          /\ y' = cy
          /\ x' = cx + args.size
    /\ k' = k + 1
    /\ UNCHANGED <<args, disk, image, pc, result, x_tiles_count, y_tiles_count, x_tile,
                   y_tile, res, pixels, width, height, height_pretender,
                   default_file_path, output_path, written>>

\* every tile is placed: the names
NamePath ==
    /\ pc = "composite"
    /\ k = Len(res)
    /\ default_file_path' = DefaultFilePath(args.file, args.size)
    /\ output_path' = OutputPath(args.output, DefaultFilePath(args.file, args.size))
    /\ pc' = "save"
    /\ UNCHANGED <<args, disk, image, result, x_tiles_count, y_tiles_count, x_tile,
                   y_tile, res, pixels, width, height, height_pretender, result_image,
                   x, y, k, placed, written>>

\* result_image.save(output_path)?; Ok(())
\* A save that fails leaves no file, or one that is not the canvas.
Save ==
    /\ pc = "save"
    /\ \/ /\ written' = Append(written, [name |-> output_path, whole |-> TRUE,
                                         content |-> result_image])
          /\ Returns("Ok")
       \/ /\ written' = written
          /\ Returns("Err")
       \/ /\ written' = Append(written, [name |-> output_path, whole |-> FALSE,
                                         content |-> NewImage(0, 0)])
          /\ Returns("Err")
    /\ UNCHANGED <<args, disk, image, x_tiles_count, y_tiles_count, x_tile, y_tile,
                   res, pixels, width, height, height_pretender, result_image,
                   x, y, k, placed, default_file_path, output_path>>

Next ==
    \/ OpenOk
    \/ OpenErr
    \/ RemainderByZero
    \/ CheckWidth
    \/ CheckHeight
    \/ ExtractTile
    \/ ExtractRowEnd
    \/ ExtractEnd
    \/ SearchRow
    \/ SearchEnd
    \/ PlaceTile
    \/ NamePath
    \/ Save

Spec == Init /\ [][Next]_vars

-----------------------------------------------------------------------------
(* What the claims speak of *)

TilesFound == Len(res)
GridCols == image.width \div args.size
GridRows == image.height \div args.size
GridCells == (0 .. GridCols - 1) \X (0 .. GridRows - 1)

\* the extraction loop is over
Extracted == pc \in {"search", "composite", "save"}

\* the dimension search is over
Searched == pc \in {"composite", "save"}

\* every tile has been overlaid
Composited == pc = "save"

\* tile t holds, pixel for pixel, the block of the source at grid cell c
BlockEquals(t, c) ==
    \A p \in Coords(args.size, args.size) :
        t.px[p] = image.px[<<c[1] * args.size + p[1], c[2] * args.size + p[2]>>]

PixelEqual(t, u) == \A p \in Coords(args.size, args.size) : t.px[p] = u.px[p]

\* the row-major rank of the first grid cell that holds res[i]
FirstCell(i) ==
    LET ranks == {c[2] * GridCols + c[1] : c \in {d \in GridCells : BlockEquals(res[i], d)}}
    IN CHOOSE r \in ranks : \A q \in ranks : r <= q

\* C1: once the extraction loop is over, no two tiles of the list are
\* pixel-equal, and every block of the source at a tile-grid position is
\* pixel-equal to exactly one tile of the list.
C1_DistinctAndCovering ==
    Extracted =>
        /\ \A i, j \in 1 .. TilesFound : i < j => ~PixelEqual(res[i], res[j])
        /\ \A c \in GridCells :
              Cardinality({i \in 1 .. TilesFound : BlockEquals(res[i], c)}) = 1

\* a source of two tile rows with a repeated tile: three tiles kept of four
C1_Witness ==
    /\ Extracted
    /\ TilesFound >= 2
    /\ GridRows >= 2
    /\ TilesFound < GridCols * GridRows

\* C2: the list is in the order of first occurrence in the row-major scan of
\* the tile grid: of two tiles of the list, the earlier one's first grid cell
\* comes before the later one's.
C2_FirstOccurrenceOrder ==
    Extracted =>
        \A i, j \in 1 .. TilesFound :
            i < j =>
                /\ \E c \in GridCells : BlockEquals(res[i], c)
                /\ \E c \in GridCells : BlockEquals(res[j], c)
                /\ FirstCell(i) < FirstCell(j)

\* three distinct tiles over two tile rows, the second cell repeating the first
C2_Witness ==
    /\ Extracted
    /\ TilesFound >= 3
    /\ GridRows >= 2
    /\ BlockEquals(res[1], <<1, 0>>)

\* C3: when the width or the height of the opened image is no multiple of the
\* tile size (at least 1), run never gets past the checks, ends with an error,
\* and writes no file.
C3_NotMultipleIsError ==
    (/\ disk.ok
     /\ args.size >= 1
     /\ (disk.img.width % args.size # 0 \/ disk.img.height % args.size # 0))
    => /\ pc \in {"open", "check_width", "check_height", "done"}
       /\ pc = "done" => result = "Err"
       /\ written = <<>>

\* the width is a multiple and the height is not: the second check returns the error
C3_Witness ==
    /\ disk.ok
    /\ args.size >= 1
    /\ disk.img.width % args.size = 0
    /\ disk.img.height % args.size # 0
    /\ pc = "done"
    /\ result = "Err"

\* C4: every tile is overlaid at a cursor (x, y) with x + tile_size <= width
\* and y + tile_size <= height, no two tiles' blocks overlap, and when the
\* loop is over every tile of the list has been overlaid.
C4_TilesFitCanvas ==
    /\ \A i \in 1 .. Len(placed) :
          /\ placed[i][1] + args.size <= width
          /\ placed[i][2] + args.size <= height
    /\ \A i, j \in 1 .. Len(placed) :
          i < j =>
             \/ placed[i][1] + args.size <= placed[j][1]
             \/ placed[j][1] + args.size <= placed[i][1]
             \/ placed[i][2] + args.size <= placed[j][2]
             \/ placed[j][2] + args.size <= placed[i][2]
    /\ Composited => Len(placed) = TilesFound

\* five tiles or more of size 2 or more, the cursor having wrapped to a second row
C4_Witness ==
    /\ Composited
    /\ args.size >= 2
    /\ Len(placed) >= 5
    /\ \E i \in 1 .. Len(placed) : placed[i][2] > 0

\* C5: the width and the height of the dimension search, and of the canvas
\* made from them, are multiples of the tile size, for any number of tiles
\* from 0.
C5_CanvasAligned ==
    /\ pc = "search" \/ Searched =>
          /\ width % args.size = 0
          /\ height % args.size = 0
    /\ Searched =>
          /\ result_image.width = width
          /\ result_image.height = height

\* the search has replaced the single-row layout, at a tile size of 2 or more
C5_Witness ==
    /\ Searched
    /\ args.size >= 2
    /\ width # pixels

\* the pair (w, h) is one of positive multiples of the tile size that covers n tiles
Feasible(w, h) ==
    /\ w > 0 /\ h > 0
    /\ w % args.size = 0 /\ h % args.size = 0
    /\ w * h >= TilesFound * args.size * args.size

\* C6: with n >= 1 tiles, the chosen (width, height) is a pair of positive
\* multiples of the tile size whose product is at least n * tile_size^2, and no
\* such pair, in or out of the search range, has a smaller width + height.
\* (A pair with a side above (n + 1) * tile_size has a larger sum than the
\* single-row layout, so the pairs up to (n + 2) * tile_size are compared.)
C6_MinimalPerimeter ==
    (Searched /\ TilesFound >= 1) =>
        /\ Feasible(width, height)
        /\ \A a, b \in 1 .. TilesFound + 2 :
              Feasible(a * args.size, b * args.size)
                  => width + height <= a * args.size + b * args.size

\* seven tiles of size 2 or more: the search has left the single row for 4 x 2 tiles
C6_Witness ==
    /\ Searched
    /\ TilesFound = 7
    /\ args.size >= 2
    /\ width = 4 * args.size
    /\ height = 2 * args.size

\* the pairs <<height, width>> of the search range that pass the area and alignment tests
Candidates ==
    {c \in (0 .. pixels - 1) \X (0 .. pixels - 1) :
        /\ c[1] * c[2] >= pixels * args.size
        /\ c[1] % args.size = 0
        /\ c[2] % args.size = 0}

\* the candidates of the least width + height
Minimal == {c \in Candidates : \A d \in Candidates : c[1] + c[2] <= d[1] + d[2]}

\* the first of the minimal pairs: the least height, and then the least width
FirstMinimal ==
    CHOOSE c \in Minimal :
        \A d \in Minimal : c[1] < d[1] \/ (c[1] = d[1] /\ c[2] <= d[2])

\* C10: the result is the single-row layout (n * tile_size, tile_size) unless a
\* pair of the search range has a strictly smaller width + height, and then it
\* is the first pair of minimal width + height in iteration order (height
\* outer, width inner, both ascending); 3 tiles of size 8 give 24 x 8.
C10_TiesKeepEarlier ==
    Searched =>
        /\ IF \E c \in Candidates : c[1] + c[2] < pixels + args.size
           THEN <<height, width>> = FirstMinimal
           ELSE width = TilesFound * args.size /\ height = args.size
        /\ (TilesFound = 3 /\ args.size = 8) => (width = 24 /\ height = 8)

\* 3 tiles of size 8: the 16 x 16 candidate ties with the single row, which is kept
C10_Witness ==
    /\ Searched
    /\ TilesFound = 3
    /\ args.size = 8
    /\ <<2 * args.size, 2 * args.size>> \in Candidates
    /\ width = 24

\* the decimal digits ds, read as a number
RECURSIVE DigitsValue(_)
DigitsValue(ds) ==
    IF ds = <<>> THEN 0
    ELSE 10 * DigitsValue(SubSeq(ds, 1, Len(ds) - 1))
         + (CHOOSE d \in 0 .. 9 : Digit(d) = ds[Len(ds)])

DigitChars == {Digit(d) : d \in 0 .. 9}

\* name is "{stem}-tileset-{n}x{n}.png", n written in decimal without a leading zero
IsDefaultName(name, stem, n) ==
    \E ds \in UNION {[1 .. l -> DigitChars] : l \in 1 .. 2} :
        /\ DigitsValue(ds) = n
        /\ Len(ds) > 1 => ds[1] # "0"
        /\ name = stem \o <<"-", "t", "i", "l", "e", "s", "e", "t", "-">>
                       \o ds \o <<"x">> \o ds \o <<".", "p", "n", "g">>

\* C8: when run returns Ok, exactly one file has been written, it holds the
\* canvas, and its name is the --output name when one is given, and otherwise
\* "{stem}-tileset-{size}x{size}.png" with the input's file stem, or "my" when
\* the input path has none.
C8_SavedOnceUnderName ==
    /\ Len(written) <= 1
    /\ result = "Ok" =>
          /\ Len(written) = 1
          /\ written[1].whole
          /\ written[1].content = result_image
          /\ IF args.output.some
             THEN written[1].name = args.output.val
             ELSE IsDefaultName(written[1].name,
                                IF FileStem(args.file).some
                                THEN FileStem(args.file).val ELSE <<"m", "y">>,
                                args.size)

\* a run given --output that returned Ok: the file has the given name, not the default
C8_Witness ==
    /\ result = "Ok"
    /\ args.output.some
    /\ Len(written) = 1
    /\ written[1].name = CustomName
    /\ written[1].name # default_file_path

\* C7: with a tile size of 0, run gets to no tile processing, ends with an
\* error value, and writes no file.
C7_ZeroSizeIsError ==
    args.size = 0 =>
        /\ pc \in {"open", "check_width", "done"}
        /\ pc = "done" => result = "Err"
        /\ written = <<>>

\* C9: after compositing, with cols = width / tile_size, the block of the
\* canvas at ((k mod cols) * tile_size, (k div cols) * tile_size) equals the
\* k-th tile pixel for pixel, and the pixels in no tile's block have the
\* initial value.
C9_TilesCopiedExactly ==
    Composited =>
        LET ts == args.size
            cols == width \div ts
            covered(q) == (q[2] \div ts) * cols + (q[1] \div ts) < TilesFound
        IN /\ \A i \in 0 .. TilesFound - 1 : \A p \in Coords(ts, ts) :
                 result_image.px[<<(i % cols) * ts + p[1], (i \div cols) * ts + p[2]>>]
                     = res[i + 1].px[p]
           /\ \A q \in DOMAIN result_image.px :
                 ~covered(q) => result_image.px[q] = Transparent

=============================================================================
